---- MODULE Spec2Model ----
(***************************************************************************)
(* A model of universal_versions/version_specifier.py: the pessimistic     *)
(* upper bound, the expansion of "~>" expressions, the two constructors of *)
(* VersionSpecifier and its containment test.                              *)
(*                                                                         *)
(* A Python str is a sequence of one-character strings, so that partition, *)
(* split, the removal of whitespace, the parsing and the formatting of a   *)
(* version are computed character by character.  None is the empty         *)
(* sequence: the only use the code makes of None is its falsity, and no    *)
(* parsed pre-release or build part is ever the empty string.              *)
(***************************************************************************)
EXTENDS Integers, Sequences, FiniteSets, TLC

VARIABLES
    arg,        \* the inputs of the calls of a run
    ret,        \* the calls made so far: function, input, outcome
    instances,  \* the VersionSpecifier objects the caller holds
    lists,      \* the list objects, by identity: lists[id] is the content
    cls         \* the attributes of the class VersionSpecifier itself

vars == <<arg, ret, instances, lists, cls>>

(***************************************************************************)
(* Bounds of the model.                                                    *)
(***************************************************************************)
\* version numbers 0..MaxNum in the enumerated versions
MaxNum == 2
\* objects a caller keeps alive at once
MaxInstances == 2
\* comma-separated expressions in an enumerated specifier string
MaxExprs == 2

(***************************************************************************)
(* Python str operations used by the module.                               *)
(***************************************************************************)
None == <<>>

Digits == <<"0", "1", "2", "3", "4", "5", "6", "7", "8", "9">>

IsDigit(c) == \E i \in 1..Len(Digits) : Digits[i] = c

DigitVal(c) == (CHOOSE i \in 1..Len(Digits) : Digits[i] = c) - 1

IsSpace(c) == c \in {" ", "\t"}

\* the characters of the model's strings other than digits, in ASCII order
Letters == <<"-", "a", "b", "c", "d", "e", "i", "l", "m", "p", "r", "s", "u", "v", "y">>

IsAlnumHyphen(c) == IsDigit(c) \/ \E i \in 1..Len(Letters) : Letters[i] = c

\* ord(c) up to an order-preserving renumbering: "-" < digits < letters
Ord(c) ==
    IF c = "-" THEN 0
    ELSE IF IsDigit(c) THEN 1 + DigitVal(c)
    ELSE 10 + (CHOOSE i \in 1..Len(Letters) : Letters[i] = c)

\* int(s) of a non-empty string of digits
RECURSIVE StrToInt(_)
StrToInt(s) ==
    IF Len(s) = 0 THEN 0
    ELSE 10 * StrToInt(SubSeq(s, 1, Len(s) - 1)) + DigitVal(s[Len(s)])

\* str(n) of a natural number
RECURSIVE IntToStr(_)
IntToStr(n) ==
    IF n < 10 THEN <<Digits[n + 1]>>
    ELSE Append(IntToStr(n \div 10), Digits[(n % 10) + 1])

\* s.startswith(t)
StartsWith(s, t) == Len(s) >= Len(t) /\ SubSeq(s, 1, Len(t)) = t

\* s.find(t) + 1: the first position where t occurs in s, 0 when there is none
Find(s, t) ==
    LET hits == {i \in 1..(Len(s) - Len(t) + 1) : SubSeq(s, i, i + Len(t) - 1) = t}
    IN IF hits = {} THEN 0 ELSE CHOOSE i \in hits : \A j \in hits : i <= j

\* t in s
HasSubstring(s, t) == Find(s, t) > 0

\* s.partition(sep): <<head, sep, tail>>, or <<s, "", "">> when sep is absent
Partition(s, sep) ==
    LET i == Find(s, sep)
    IN IF i = 0 THEN <<s, <<>>, <<>>>>
       ELSE <<SubSeq(s, 1, i - 1), sep, SubSeq(s, i + Len(sep), Len(s))>>

\* s.split(sep): the list of the pieces between the occurrences of sep
RECURSIVE Split(_, _)
Split(s, sep) ==
    LET i == Find(s, sep)
    IN IF i = 0 THEN <<s>>
       ELSE <<SubSeq(s, 1, i - 1)>> \o Split(SubSeq(s, i + Len(sep), Len(s)), sep)

\* sep.join(parts)
RECURSIVE Join(_, _)
Join(parts, sep) ==
    IF Len(parts) = 0 THEN <<>>
    ELSE IF Len(parts) = 1 THEN parts[1]
    ELSE parts[1] \o sep \o Join(Tail(parts), sep)

(***************************************************************************)
(* universal_versions.utils.remove_spaces: the string without whitespace.  *)
(***************************************************************************)
RECURSIVE remove_spaces(_)
remove_spaces(s) ==
    IF Len(s) = 0 THEN <<>>
    ELSE IF IsSpace(s[1]) THEN remove_spaces(Tail(s))
    ELSE <<s[1]>> \o remove_spaces(Tail(s))

(***************************************************************************)
(* Outcomes of a call: a returned value or a raised exception.             *)
(***************************************************************************)
Return(v) == [ok |-> TRUE, err |-> "", val |-> v]

Raise(e) == [ok |-> FALSE, err |-> e, val |-> <<>>]

(***************************************************************************)
(* The semver package: Version.parse, to_tuple, the bump methods, str and  *)
(* the ordering of versions.                                               *)
(***************************************************************************)
\* 0|[1-9]\d*
IsNumericId(s) ==
    /\ Len(s) > 0
    /\ \A i \in 1..Len(s) : IsDigit(s[i])
    /\ (Len(s) > 1 => s[1] # "0")

\* [0-9a-zA-Z-]+
IsBuildId(s) == Len(s) > 0 /\ \A i \in 1..Len(s) : IsAlnumHyphen(s[i])

\* 0|[1-9]\d*|\d*[a-zA-Z-][0-9a-zA-Z-]*
IsPrereleaseId(s) ==
    /\ IsBuildId(s)
    /\ ((\A i \in 1..Len(s) : IsDigit(s[i])) => IsNumericId(s))

\* the match of the pattern on the pieces of the string: core is the dotted
\* part before "-" and "+", p the partition at "-", b the partition at "+"
parse_core(core, pre, build, p, b) ==
    IF /\ Len(core) = 3
       /\ \A i \in 1..3 : IsNumericId(core[i])
       /\ (p[2] # <<>> => \A i \in 1..Len(pre) : IsPrereleaseId(pre[i]))
       /\ (b[2] # <<>> => \A i \in 1..Len(build) : IsBuildId(build[i]))
    THEN Return([major |-> StrToInt(core[1]), minor |-> StrToInt(core[2]),
                 patch |-> StrToInt(core[3]),
                 prerelease |-> IF p[2] # <<>> THEN p[3] ELSE None,
                 build |-> IF b[2] # <<>> THEN b[3] ELSE None])
    ELSE Raise("ValueError: not valid SemVer string")

parse_prerelease(p, b) ==
    parse_core(Split(p[1], <<".">>), Split(p[3], <<".">>), Split(b[3], <<".">>), p, b)

parse_build(b) == parse_prerelease(Partition(b[1], <<"-">>), b)

\* Version.parse(version): major.minor.patch[-prerelease][+build], or ValueError
Version_parse(s) == parse_build(Partition(s, <<"+">>))

\* Version(major, minor, patch, prerelease, build)
Version(major, minor, patch, prerelease, build) ==
    [major |-> major, minor |-> minor, patch |-> patch,
     prerelease |-> prerelease, build |-> build]

\* str(version)
Version_str(v) ==
    IntToStr(v.major) \o <<".">> \o IntToStr(v.minor) \o <<".">> \o IntToStr(v.patch)
    \o (IF v.prerelease # None THEN <<"-">> \o v.prerelease ELSE <<>>)
    \o (IF v.build # None THEN <<"+">> \o v.build ELSE <<>>)

\* Version._increment_string: the last number of the string plus one, in the
\* place of that number (the string itself when it holds no number)
increment_string(s) ==
    LET ends == {i \in 1..Len(s) : IsDigit(s[i])}
    IN IF ends = {} THEN s
       ELSE LET end == CHOOSE i \in ends : \A j \in ends : j <= i
                start == CHOOSE i \in 1..end :
                            /\ \A j \in i..end : IsDigit(s[j])
                            /\ (i > 1 => ~IsDigit(s[i - 1]))
                next == IntToStr(StrToInt(SubSeq(s, start, end)) + 1)
                keep == IF end - Len(next) > start - 1 THEN end - Len(next) ELSE start - 1
            IN SubSeq(s, 1, keep) \o next \o SubSeq(s, end + 1, Len(s))

bump_minor(v) == Version(v.major, v.minor + 1, 0, None, None)

bump_patch(v) == Version(v.major, v.minor, v.patch + 1, None, None)

\* bump_prerelease(token="rc")
bump_prerelease(v) ==
    Version(v.major, v.minor, v.patch,
            increment_string(IF v.prerelease # None THEN v.prerelease
                             ELSE <<"r", "c", ".", "0">>),
            None)

\* bump_build(token="build")
bump_build(v) ==
    Version(v.major, v.minor, v.patch, v.prerelease,
            increment_string(IF v.build # None THEN v.build
                             ELSE <<"b", "u", "i", "l", "d", ".", "0">>))

\* cmp(a, b) of two integers
CmpInt(a, b) == IF a < b THEN -1 ELSE IF a > b THEN 1 ELSE 0

\* cmp(a, b) of two str: the first differing character decides, then the length
RECURSIVE CmpStr(_, _)
CmpStr(a, b) ==
    IF Len(a) = 0 \/ Len(b) = 0 THEN CmpInt(Len(a), Len(b))
    ELSE IF a[1] # b[1] THEN CmpInt(Ord(a[1]), Ord(b[1]))
    ELSE CmpStr(Tail(a), Tail(b))

IsAllDigits(s) == Len(s) > 0 /\ \A i \in 1..Len(s) : IsDigit(s[i])

\* cmp_prerelease_tag: numbers by value, a number before a word, words as str
cmp_prerelease_tag(a, b) ==
    IF IsAllDigits(a) /\ IsAllDigits(b) THEN CmpInt(StrToInt(a), StrToInt(b))
    ELSE IF IsAllDigits(a) THEN -1
    ELSE IF IsAllDigits(b) THEN 1
    ELSE CmpStr(a, b)

RECURSIVE cmp_parts(_, _)
cmp_parts(as, bs) ==
    IF Len(as) = 0 \/ Len(bs) = 0 THEN 0
    ELSE LET c == cmp_prerelease_tag(as[1], bs[1])
         IN IF c # 0 THEN c ELSE cmp_parts(Tail(as), Tail(bs))

\* _nat_cmp(a, b): the dotted parts pairwise, then the lengths of the strings
nat_cmp(a, b) ==
    LET c == cmp_parts(Split(a, <<".">>), Split(b, <<".">>))
    IN IF c # 0 THEN c ELSE CmpInt(Len(a), Len(b))

\* Version.compare: (major, minor, patch), then the pre-release parts, a version
\* without pre-release after one with; the build part plays no role
Version_compare(v, w) ==
    LET x == IF v.major # w.major THEN CmpInt(v.major, w.major)
             ELSE IF v.minor # w.minor THEN CmpInt(v.minor, w.minor)
             ELSE CmpInt(v.patch, w.patch)
        rccmp == nat_cmp(v.prerelease, w.prerelease)
    IN IF x # 0 THEN x
       ELSE IF rccmp = 0 THEN 0
       ELSE IF v.prerelease = None THEN 1
       ELSE IF w.prerelease = None THEN -1
       ELSE rccmp

(***************************************************************************)
(* universal_versions.versions and universal_versions.version_range: the   *)
(* version parser of each scheme, parse_version and VersionRange.  Two     *)
(* schemes are registered, "semver" and "pypi"; a "pypi" version is its    *)
(* dotted release numbers, compared number by number with missing numbers  *)
(* read as 0.  A VersionRange is (scheme, operator, version text); a       *)
(* version object is (scheme, version text).                               *)
(***************************************************************************)
semver == <<"s", "e", "m", "v", "e", "r">>

pypi == <<"p", "y", "p", "i">>

IsPypiVersion(s) ==
    LET parts == Split(s, <<".">>)
    IN \A i \in 1..Len(parts) : IsAllDigits(parts[i])

RECURSIVE cmp_release(_, _)
cmp_release(as, bs) ==
    IF Len(as) = 0 /\ Len(bs) = 0 THEN 0
    ELSE LET a == IF Len(as) = 0 THEN 0 ELSE StrToInt(as[1])
             b == IF Len(bs) = 0 THEN 0 ELSE StrToInt(bs[1])
         IN IF a # b THEN CmpInt(a, b)
            ELSE cmp_release(IF Len(as) = 0 THEN as ELSE Tail(as),
                             IF Len(bs) = 0 THEN bs ELSE Tail(bs))

\* whether the scheme's parser accepts the version text
is_valid_version(scheme, text) ==
    IF scheme = semver THEN Version_parse(text).ok
    ELSE IF scheme = pypi THEN IsPypiVersion(text)
    ELSE FALSE

\* the ordering of two valid version texts of one scheme: -1, 0 or 1
compare_versions(scheme, a, b) ==
    IF scheme = semver THEN Version_compare(Version_parse(a).val, Version_parse(b).val)
    ELSE cmp_release(Split(a, <<".">>), Split(b, <<".">>))

make_version(p) ==
    IF is_valid_version(p[1], p[3])
    THEN Return([scheme |-> p[1], version |-> p[3]])
    ELSE Raise("VersionParseError")

\* parse_version: a version object from a scheme-prefixed version string
parse_version(s) == make_version(Partition(s, <<":">>))

Operators == << <<"=", "=">>, <<"!", "=">>, <<"<", "=">>, <<">", "=">>, <<"<">>, <<">">> >>

\* VersionRange.split: the leading comparison operator ("==" when there is
\* none) and the rest of the expression
split_operator(expr) ==
    LET hits == {i \in 1..Len(Operators) : StartsWith(expr, Operators[i])}
    IN IF hits = {} THEN << <<"=", "=">>, expr >>
       ELSE LET i == CHOOSE i \in hits : \A j \in hits : i <= j
            IN <<Operators[i], SubSeq(expr, Len(Operators[i]) + 1, Len(expr))>>

\* the range of an operator and a version text, when the scheme's parser
\* accepts the text
make_range(sp, scheme) ==
    IF is_valid_version(scheme, sp[2])
    THEN Return([scheme |-> scheme, operator |-> sp[1], version |-> sp[2]])
    ELSE Raise("InvalidRangeError")

\* VersionRange(version_range_string, scheme)
VersionRange(expr, scheme) == make_range(split_operator(expr), scheme)

\* VersionRange.__contains__: version in version_range
version_in_range(version, range) ==
    LET c == compare_versions(range.scheme, version.version, range.version)
        op == range.operator
    IN IF op = <<"=", "=">> THEN c = 0
       ELSE IF op = <<"!", "=">> THEN c # 0
       ELSE IF op = <<"<", "=">> THEN c <= 0
       ELSE IF op = <<">", "=">> THEN c >= 0
       ELSE IF op = <<"<">> THEN c < 0
       ELSE c > 0

(***************************************************************************)
(* version_specifier.py                                                    *)
(***************************************************************************)
\* version_obj.to_tuple()[i], i = 0..4, read as a condition
truthy(v, i) ==
    IF i = 0 THEN v.major # 0
    ELSE IF i = 1 THEN v.minor # 0
    ELSE IF i = 2 THEN v.patch # 0
    ELSE IF i = 3 THEN v.prerelease # None
    ELSE v.build # None

\* index_method[index]()
index_method(v, index) ==
    IF index = 0 THEN bump_build(v)
    ELSE IF index = 1 THEN bump_minor(v)
    ELSE IF index = 2 THEN bump_patch(v)
    ELSE bump_prerelease(v)

\* scan_tuple reading version_tuple[index + 1] in the place of [index + 2]
RECURSIVE scan_tuple_one_ahead(_, _)
scan_tuple_one_ahead(v, index) ==
    IF index > 4 THEN Return(None)
    ELSE IF index > 3 THEN Raise("ValueError: No pessismistic upper bound exists")
    ELSE IF ~truthy(v, index + 1) THEN Return(Version_str(index_method(v, index)))
    ELSE scan_tuple_one_ahead(v, index + 1)

\* the loop over enumerate(version_tuple), from position index on; the tuple
\* has five entries, so version_tuple[index + 2] is an IndexError at index 3
RECURSIVE scan_tuple(_, _)
scan_tuple(v, index) ==
    IF index > 4 THEN Return(None)
    ELSE IF index > 3 THEN Raise("ValueError: No pessismistic upper bound exists")
    ELSE IF index + 2 > 4 THEN Raise("IndexError: tuple index out of range")
    ELSE IF ~truthy(v, index + 2) THEN Return(Version_str(index_method(v, index)))
    ELSE scan_tuple(v, index + 1)

\* the function from its second line on, version_obj being the outcome of
\* Version.parse
scan_version(version_obj) ==
    IF ~version_obj.ok THEN version_obj ELSE scan_tuple(version_obj.val, 0)

find_pessimistic_upper_bound(version_string) ==
    scan_version(Version_parse(version_string))

\* the returned pair, lo and hi being the outcomes of the two VersionRange(...)
range_pair(lo, hi) ==
    IF ~lo.ok THEN lo
    ELSE IF ~hi.ok THEN hi
    ELSE Return(<<lo.val, hi.val>>)

\* the last line of normalized_pessimistic_ranges, upper_bound being the
\* outcome of find_pessimistic_upper_bound
bound_ranges(lower_bound, upper_bound) ==
    IF ~upper_bound.ok THEN upper_bound
    ELSE range_pair(VersionRange(<<">", "=">> \o lower_bound, semver),
                    VersionRange(<<"<">> \o upper_bound.val, semver))

\* _, version = parts, a ValueError unless there are exactly two parts
unpack_parts(parts) ==
    IF Len(parts) # 2 THEN Raise("ValueError: version range string is not valid")
    ELSE bound_ranges(parts[2], find_pessimistic_upper_bound(parts[2]))

\* remove_spaces(...) on its first line is a call whose result is dropped
normalized_pessimistic_ranges(pessimistic_version_range_string) ==
    unpack_parts(Split(pessimistic_version_range_string, <<"~", ">">>))

\* the loop of from_scheme_version_spec_string over the expressions left,
\* ranges being the list built so far
RECURSIVE build_ranges(_, _, _)

\* ranges.extend(r) or ranges.append(r) and the rest of the loop, r being the
\* outcome of the expression's expansion or parse
add_ranges(scheme, rest, ranges, r, extend) ==
    IF ~r.ok THEN r
    ELSE build_ranges(scheme, rest,
                      IF extend THEN ranges \o r.val ELSE Append(ranges, r.val))

\* build_ranges expanding "~>" under every scheme
build_ranges_any_scheme(scheme, version_ranges, ranges) ==
    IF Len(version_ranges) = 0 THEN Return(ranges)
    ELSE IF HasSubstring(version_ranges[1], <<"~", ">">>)
    THEN add_ranges(scheme, Tail(version_ranges), ranges,
                    normalized_pessimistic_ranges(version_ranges[1]), TRUE)
    ELSE add_ranges(scheme, Tail(version_ranges), ranges,
                    VersionRange(version_ranges[1], scheme), FALSE)

build_ranges(scheme, version_ranges, ranges) ==
    IF Len(version_ranges) = 0 THEN Return(ranges)
    ELSE IF scheme = semver /\ HasSubstring(version_ranges[1], <<"~", ">">>)
    THEN add_ranges(scheme, Tail(version_ranges), ranges,
                    normalized_pessimistic_ranges(version_ranges[1]), TRUE)
    ELSE add_ranges(scheme, Tail(version_ranges), ranges,
                    VersionRange(version_ranges[1], scheme), FALSE)

\* make_specifier without vs.scheme = scheme: the scheme read is the class's
make_specifier_class_scheme(scheme, ranges) ==
    IF ~ranges.ok THEN ranges
    ELSE Return([scheme |-> <<>>, ranges |-> ranges.val])

\* vs = cls(); vs.ranges = ranges; vs.scheme = scheme: the value of the
\* returned VersionSpecifier, its scheme and its ranges
make_specifier(scheme, ranges) ==
    IF ~ranges.ok THEN ranges
    ELSE Return([scheme |-> scheme, ranges |-> ranges.val])

from_scheme_version_spec_string(scheme, value) ==
    make_specifier(scheme,
                   build_ranges(scheme, Split(remove_spaces(value), <<",">>), <<>>))

\* check_partition without the test of version_range_expressions
check_partition_unchecked(p) ==
    IF Len(p[1]) = 0 THEN Raise("ValueError: is not prefixed by scheme")
    ELSE from_scheme_version_spec_string(p[1], p[3])

\* from_version_spec_string after the partition p of its argument at ":"
check_partition(p) ==
    IF Len(p[1]) = 0 THEN Raise("ValueError: is not prefixed by scheme")
    ELSE IF Len(p[3]) = 0 THEN Raise("ValueError: contains no version range")
    ELSE from_scheme_version_spec_string(p[1], p[3])

from_version_spec_string(version_spec_string) ==
    check_partition(Partition(version_spec_string, <<":">>))

\* any(...) in the place of all(...)
RECURSIVE any_in(_, _)
any_in(version, ranges) ==
    IF Len(ranges) = 0 THEN FALSE
    ELSE version_in_range(version, ranges[1]) \/ any_in(version, Tail(ranges))

\* all([version in version_range for version_range in ranges])
RECURSIVE all_in(_, _)
all_in(version, ranges) ==
    IF Len(ranges) = 0 THEN TRUE
    ELSE version_in_range(version, ranges[1]) /\ all_in(version, Tail(ranges))

\* the last line of __contains__, v being the outcome of parse_version
all_ranges(v, ranges) ==
    IF ~v.ok THEN v ELSE Return(all_in(v.val, ranges))

\* VersionSpecifier.__contains__ on the ranges of self, the version being a
\* version object (isstr FALSE) or a scheme-prefixed string (isstr TRUE)
contains(ranges, version, isstr) ==
    all_ranges(IF isstr THEN parse_version(version) ELSE Return(version), ranges)

(***************************************************************************)
(* The state of the class and of a caller before any call.                 *)
(***************************************************************************)
\* class VersionSpecifier: scheme = "", ranges = [] (the list object 1)
ClassDefaults == [scheme |-> <<>>, ranges |-> 1]

NoHeap ==
    /\ instances = <<>>
    /\ lists = << <<>> >>
    /\ cls = ClassDefaults

Call(fn, in, out) == [fn |-> fn, in |-> in, out |-> out]

(***************************************************************************)
(* SpecBound: the pessimistic bound and the expansion of "~>version", on   *)
(* every version with numbers 0..MaxNum, with and without pre-release and  *)
(* build part, and on some strings that are no version.                    *)
(***************************************************************************)
Prereleases == {None, <<"r", "c", ".", "1">>}

Builds == {None, <<"b", ".", "9">>}

PlainVersions(n) ==
    {Version(x, y, z, None, None) : x \in 0..n, y \in 0..n, z \in 0..n}

EnumeratedVersions ==
    {Version(x, y, z, pr, bd) :
        x \in 0..MaxNum, y \in 0..MaxNum, z \in 0..MaxNum,
        pr \in Prereleases, bd \in Builds}

OtherTexts ==
    { <<"2", ".", "0", ".", "8">>,
      <<"1", "0", ".", "9", ".", "9">>,
      <<"1", ".", "2">>,
      <<"0", "1", ".", "2", ".", "3">>,
      <<"1", ".", "2", ".", "3", "~", ">", "1", ".", "2", ".", "3">>,
      <<>> }

BoundTexts == {Version_str(v) : v \in EnumeratedVersions} \cup OtherTexts

Tilde == <<"~", ">">>

InitBound ==
    /\ arg \in BoundTexts
    /\ ret = <<>>
    /\ NoHeap

BoundFind ==
    /\ ret = <<>>
    /\ ret' = <<Call("find_pessimistic_upper_bound", arg,
                     find_pessimistic_upper_bound(arg))>>
    /\ UNCHANGED <<arg, instances, lists, cls>>

BoundNormalized ==
    /\ ret = <<>>
    /\ ret' = <<Call("normalized_pessimistic_ranges", Tilde \o arg,
                     normalized_pessimistic_ranges(Tilde \o arg))>>
    /\ UNCHANGED <<arg, instances, lists, cls>>

BoundFromScheme ==
    /\ ret = <<>>
    /\ ret' = <<Call("from_scheme_version_spec_string", Tilde \o arg,
                     from_scheme_version_spec_string(semver, Tilde \o arg))>>
    /\ UNCHANGED <<arg, instances, lists, cls>>

\* a containment query on the specifier the first call returned
BoundContains ==
    /\ Len(ret) = 1
    /\ ret[1].fn = "from_scheme_version_spec_string"
    /\ ret[1].out.ok
    /\ \E v \in PlainVersions(MaxNum + 1) :
          ret' = Append(ret, Call("contains", Version_str(v),
                     contains(ret[1].out.val.ranges,
                              [scheme |-> semver, version |-> Version_str(v)], FALSE)))
    /\ UNCHANGED <<arg, instances, lists, cls>>

NextBound == BoundFind \/ BoundNormalized \/ BoundFromScheme \/ BoundContains

SpecBound == InitBound /\ [][NextBound]_vars

\* the parsed input of the run, when it is a semver version
ArgVersion == Version_parse(arg)

IsPlain(v) == v.prerelease = None /\ v.build = None

\* the calls of the run so far that applied fn
CallsOf(fn) == {k \in 1..Len(ret) : ret[k].fn = fn}

(***************************************************************************)
(* C2: for scheme semver and "~>X.Y.Z" with Z # 0 and neither pre-release  *)
(* nor build part, normalized_pessimistic_ranges and                       *)
(* from_scheme_version_spec_string yield exactly the two semver ranges     *)
(* ">=X.Y.Z" and "<X.(Y+1).0", in this order; for 2.0.8 the upper bound is *)
(* 2.1.0.                                                                  *)
(***************************************************************************)
C2_Ranges(out) == IF out.fn = "normalized_pessimistic_ranges" THEN out.out.val
                  ELSE out.out.val.ranges

C2_PessimisticPair ==
    \A k \in CallsOf("normalized_pessimistic_ranges")
             \cup CallsOf("from_scheme_version_spec_string") :
        (ArgVersion.ok /\ IsPlain(ArgVersion.val) /\ ArgVersion.val.patch # 0) =>
            /\ ret[k].out.ok
            /\ Len(C2_Ranges(ret[k])) = 2
            /\ C2_Ranges(ret[k])[1] =
                  [scheme |-> semver, operator |-> <<">", "=">>, version |-> arg]
            /\ C2_Ranges(ret[k])[2].scheme = semver
            /\ C2_Ranges(ret[k])[2].operator = <<"<">>
            /\ Version_parse(C2_Ranges(ret[k])[2].version) =
                  Return(Version(ArgVersion.val.major, ArgVersion.val.minor + 1, 0,
                                 None, None))
            /\ (arg = <<"2", ".", "0", ".", "8">> =>
                  C2_Ranges(ret[k])[2].version = <<"2", ".", "1", ".", "0">>)

C2_Witness ==
    /\ arg = <<"2", ".", "0", ".", "8">>
    /\ CallsOf("from_scheme_version_spec_string") # {}
    /\ ret[1].out.ok
    /\ Len(ret[1].out.val.ranges) = 2

(***************************************************************************)
(* C3: the specifier of "~>M.m.p" (no pre-release, no build part, p = 0    *)
(* included) contains M.m.p and every M.m.q with q > p, and does not       *)
(* contain M.(m+1).0.                                                      *)
(***************************************************************************)
C3_PessimisticContains ==
    (Len(ret) = 2 /\ ret[2].fn = "contains" /\ IsPlain(ArgVersion.val)) =>
        LET v == ArgVersion.val
            q == Version_parse(ret[2].in).val
        IN /\ ret[2].out.ok
           /\ (q.major = v.major /\ q.minor = v.minor /\ q.patch >= v.patch
                  => ret[2].out.val = TRUE)
           /\ (q.major = v.major /\ q.minor = v.minor + 1 /\ q.patch = 0
                  => ret[2].out.val = FALSE)

(***************************************************************************)
(* C5: find_pessimistic_upper_bound fails with the "No pessismistic upper  *)
(* bound exists" error, and with no other failure, for every version with  *)
(* a non-zero patch, a pre-release part and a build part.                  *)
(***************************************************************************)
C5_NoBoundError ==
    \A k \in CallsOf("find_pessimistic_upper_bound") :
        (/\ ArgVersion.ok
         /\ ArgVersion.val.patch # 0
         /\ ArgVersion.val.prerelease # None
         /\ ArgVersion.val.build # None) =>
            /\ ~ret[k].out.ok
            /\ ret[k].out.err = "ValueError: No pessismistic upper bound exists"

(***************************************************************************)
(* C9: find_pessimistic_upper_bound bumps the component at the first       *)
(* position i of (major, minor, patch, prerelease, build) whose entry two  *)
(* positions ahead is empty or zero: the result is the input with that     *)
(* component plus one and the less significant components reset, also for  *)
(* a version whose patch is 0 (position 0, the major number).              *)
(***************************************************************************)
C9_Expected(v) ==
    IF v.patch = 0 THEN Version(v.major + 1, 0, 0, None, None)
    ELSE IF v.prerelease = None THEN Version(v.major, v.minor + 1, 0, None, None)
    ELSE Version(v.major, v.minor, v.patch + 1, None, None)

C9_BumpAtPosition ==
    \A k \in CallsOf("find_pessimistic_upper_bound") :
        (ArgVersion.ok /\ (ArgVersion.val.patch = 0 \/ ArgVersion.val.prerelease = None
                           \/ ArgVersion.val.build = None)) =>
            /\ ret[k].out.ok
            /\ Version_parse(ret[k].out.val) = Return(C9_Expected(ArgVersion.val))

\* the same without the versions whose patch is 0
C9_BumpPatchNonZero ==
    \A k \in CallsOf("find_pessimistic_upper_bound") :
        (ArgVersion.ok /\ ArgVersion.val.patch # 0
         /\ (ArgVersion.val.prerelease = None \/ ArgVersion.val.build = None)) =>
            /\ ret[k].out.ok
            /\ Version_parse(ret[k].out.val) = Return(C9_Expected(ArgVersion.val))

(***************************************************************************)
(* SpecParse: the two constructors on specifier strings of up to MaxExprs  *)
(* expressions under both schemes, on malformed strings, and on each of    *)
(* these strings with one whitespace character put in at any place.  A run *)
(* calls one constructor on the string a, then on its variant b.           *)
(***************************************************************************)
Expressions ==
    { <<">", "=", "1", ".", "0", ".", "0">>,
      <<"<", "2", ".", "0">>,
      <<"~", ">", "2", ".", "0", ".", "8">>,
      <<"~", ">", "1", ".", "2", ".", "3", "-", "r", "c", ".", "1", "+", "b", ".", "9">>,
      <<"=", ">", "1", ".", "0", ".", "0">>,
      <<>> }

RECURSIVE ExpressionLists(_)
ExpressionLists(n) ==
    IF n = 0 THEN {}
    ELSE {<<e>> : e \in Expressions}
         \cup {Append(l, e) : l \in ExpressionLists(n - 1), e \in Expressions}

Values == {Join(l, <<",">>) : l \in ExpressionLists(MaxExprs)}

Schemes == {semver, pypi}

MalformedSpecs ==
    { <<"n", "o", "v", "a", "l", "u", "e">>,
      <<":", ">", "=", "1", ".", "0", ".", "0">>,
      semver \o <<":">>,
      pypi \o <<":", "1", ".", "0", ":", "2">>,
      <<>> }

SpecStrings == {sch \o <<":">> \o v : sch \in Schemes, v \in Values} \cup MalformedSpecs

\* s, and s with one whitespace character before position i, or at its end
Variants(s) ==
    {s} \cup {SubSeq(s, 1, i - 1) \o <<w>> \o SubSeq(s, i, Len(s)) :
                 i \in 1..(Len(s) + 1), w \in {" ", "\t"}}

\* the runs on the strings of S under one scheme argument
Runs(fn, sch, S) ==
    UNION {{[fn |-> fn, scheme |-> sch, a |-> s, b |-> t] : t \in Variants(s)} : s \in S}

InitParse ==
    /\ arg \in Runs("from_version_spec_string", <<>>, SpecStrings)
               \cup UNION {Runs("from_scheme_version_spec_string", sch, Values) :
                              sch \in Schemes}
    /\ ret = <<>>
    /\ NoHeap

\* the string of the next call of the run
NextInput == IF Len(ret) = 0 THEN arg.a ELSE arg.b

ParseSpecString ==
    /\ arg.fn = "from_version_spec_string"
    /\ Len(ret) < 2
    /\ ret' = Append(ret, Call(arg.fn, NextInput, from_version_spec_string(NextInput)))
    /\ UNCHANGED <<arg, instances, lists, cls>>

ParseSchemeString ==
    /\ arg.fn = "from_scheme_version_spec_string"
    /\ Len(ret) < 2
    /\ ret' = Append(ret, Call(arg.fn, NextInput,
                               from_scheme_version_spec_string(arg.scheme, NextInput)))
    /\ UNCHANGED <<arg, instances, lists, cls>>

NextParse == ParseSpecString \/ ParseSchemeString

SpecParse == InitParse /\ [][NextParse]_vars

\* the scheme and the value the call ret[k] of a constructor is about: its
\* arguments, or the two sides of the first ":" of its argument
FirstColon(str) == CHOOSE i \in 1..Len(str) :
                      str[i] = ":" /\ \A j \in 1..(i - 1) : str[j] # ":"

SchemeOf(k) ==
    IF ret[k].fn = "from_scheme_version_spec_string" THEN arg.scheme
    ELSE SubSeq(ret[k].in, 1, FirstColon(ret[k].in) - 1)

ValueOf(k) ==
    IF ret[k].fn = "from_scheme_version_spec_string" THEN ret[k].in
    ELSE SubSeq(ret[k].in, FirstColon(ret[k].in) + 1, Len(ret[k].in))

Constructed == {k \in 1..Len(ret) : ret[k].out.ok}

(***************************************************************************)
(* C4: from_version_spec_string fails with its own ValueError, and builds  *)
(* nothing, when the string has no ":", nothing before its first ":" or    *)
(* nothing after it; otherwise its outcome is that of                      *)
(* from_scheme_version_spec_string on the two sides of the first ":".      *)
(***************************************************************************)
C4_Malformed(str) ==
    \/ \A i \in 1..Len(str) : str[i] # ":"
    \/ FirstColon(str) = 1
    \/ FirstColon(str) = Len(str)

C4_SplitOrFail ==
    \A k \in CallsOf("from_version_spec_string") :
        IF C4_Malformed(ret[k].in)
        THEN /\ ~ret[k].out.ok
             /\ ret[k].out.err \in {"ValueError: is not prefixed by scheme",
                                    "ValueError: contains no version range"}
        ELSE ret[k].out = from_scheme_version_spec_string(SchemeOf(k), ValueOf(k))

C4_Witness ==
    /\ Len(ret) = 2
    /\ ret[1].fn = "from_version_spec_string"
    /\ ret[1].in = <<"n", "o", "v", "a", "l", "u", "e">>
    /\ ~ret[1].out.ok
    /\ ~ret[2].out.ok

(***************************************************************************)
(* C6: the ranges of a constructed specifier follow the comma-separated    *)
(* expressions from left to right, one range per expression, except two    *)
(* adjacent ranges (lower, then upper) per expression holding "~>" under   *)
(* the scheme semver; under another scheme no expression is expanded.      *)
(***************************************************************************)
C6_Expressions(k) == Split(remove_spaces(ValueOf(k)), <<",">>)

C6_Expanded(k, j) ==
    SchemeOf(k) = semver /\ HasSubstring(C6_Expressions(k)[j], Tilde)

\* the number of ranges the expressions before the j-th contribute
C6_Offset(k, j) ==
    (j - 1) + Cardinality({i \in 1..(j - 1) : C6_Expanded(k, i)})

C6_RangesFollowExpressions ==
    \A k \in Constructed :
        LET n == Len(C6_Expressions(k))
            ranges == ret[k].out.val.ranges
        IN /\ Len(ranges) = C6_Offset(k, n + 1)
           /\ \A j \in 1..n :
                 IF C6_Expanded(k, j)
                 THEN /\ ranges[C6_Offset(k, j) + 1].operator = <<">", "=">>
                      /\ ranges[C6_Offset(k, j) + 1].version =
                            Split(C6_Expressions(k)[j], Tilde)[2]
                      /\ ranges[C6_Offset(k, j) + 2].operator = <<"<">>
                 ELSE ranges[C6_Offset(k, j) + 1].operator \o
                      ranges[C6_Offset(k, j) + 1].version
                         \in {C6_Expressions(k)[j], <<"=", "=">> \o C6_Expressions(k)[j]}

\* a semver specifier of a pessimistic and a primitive expression: 3 ranges
C6_Witness ==
    \E k \in Constructed :
        /\ SchemeOf(k) = semver
        /\ Len(C6_Expressions(k)) = 2
        /\ C6_Expanded(k, 1)
        /\ ~C6_Expanded(k, 2)
        /\ Len(ret[k].out.val.ranges) = 3

(***************************************************************************)
(* C7: a constructed specifier has the scheme it was asked for, and each   *)
(* of its ranges, the two of a pessimistic expansion included, has that    *)
(* scheme too.                                                             *)
(***************************************************************************)
C7_OneScheme ==
    \A k \in Constructed :
        /\ ret[k].out.val.scheme = SchemeOf(k)
        /\ \A j \in 1..Len(ret[k].out.val.ranges) :
              ret[k].out.val.ranges[j].scheme = SchemeOf(k)

\* a semver specifier built from a string whose ranges include an expansion
C7_Witness ==
    \E k \in Constructed :
        /\ ret[k].fn = "from_version_spec_string"
        /\ SchemeOf(k) = semver
        /\ \E j \in 1..Len(C6_Expressions(k)) : C6_Expanded(k, j)
        /\ Len(ret[k].out.val.ranges) >= 2

(***************************************************************************)
(* C8: two specifier strings, or two values under one scheme, that differ  *)
(* only by whitespace either both fail or both give the same scheme and    *)
(* the same ranges.                                                        *)
(***************************************************************************)
C8_WhitespaceInsignificant ==
    Len(ret) = 2 =>
        /\ ret[1].out.ok = ret[2].out.ok
        /\ (ret[1].out.ok => ret[1].out.val = ret[2].out.val)

\* the same for the values given to from_scheme_version_spec_string alone
C8_ValueWhitespace ==
    (Len(ret) = 2 /\ arg.fn = "from_scheme_version_spec_string") =>
        /\ ret[1].out.ok = ret[2].out.ok
        /\ (ret[1].out.ok => ret[1].out.val = ret[2].out.val)

(***************************************************************************)
(* Spec: a caller that builds specifiers with both constructors, keeps up  *)
(* to MaxInstances of them and queries them.  An object holds references:  *)
(* its attribute ranges is the identity of a list object, as is the class  *)
(* attribute ranges.  ret holds the last call only; made is the call that  *)
(* built the object, kept to state what the object was built from.         *)
(***************************************************************************)
\* ranges = cls.ranges in the place of ranges = []
class_list(ls, c) == [lists |-> ls, id |-> c.ranges]

\* ranges = []: a new list object, and its identity
new_list(ls, c) == [lists |-> Append(ls, <<>>), id |-> Len(ls) + 1]

\* the heap once the constructor has filled the list a.id with the ranges
\* of the specifier value vs and returned the object
filled(a, insts, vs, made) ==
    [lists |-> [a.lists EXCEPT ![a.id] = @ \o vs.ranges],
     instances |-> Append(insts, [scheme |-> vs.scheme, ranges |-> a.id, made |-> made])]

\* the heap after the call made
construct(ls, c, insts, made) ==
    IF made.out.ok THEN filled(new_list(ls, c), insts, made.out.val, made)
    ELSE [lists |-> ls, instances |-> insts]

HeapSpecStrings ==
    { semver \o <<":", ">", "=", "1", ".", "0", ".", "0", ",", "<", "2", ".", "0", ".", "0">>,
      semver \o <<":", "~", ">", "1", ".", "2", ".", "3", ",", "!", "=", "1", ".", "2", ".", "5">>,
      semver \o <<":", "~", ">", "1", ".", "2", ".", "0">>,
      pypi \o <<":", ">", "=", "1", ".", "0", ",", "!", "=", "1", ".", "5">>,
      <<"n", "o", "v", "a", "l", "u", "e">> }

HeapSchemeValues ==
    { <<semver, <<"1", ".", "0", ".", "0", ",", " ", "!", "=", "1", ".", "0", ".", "0">> >>,
      <<semver, <<"<", "1", ".", "3", ".", "0", ",", ">", "1", ".", "2", ".", "3", "-", "r", "c", ".", "1">> >>,
      <<pypi, <<"<", "2", ".", "0">> >>,
      <<pypi, <<"~", ">", "2", ".", "0", ".", "8">> >> }

QueryVersions(scheme) ==
    IF scheme = semver
    THEN { <<"1", ".", "0", ".", "0">>, <<"1", ".", "2", ".", "0">>,
           <<"1", ".", "2", ".", "3">>, <<"1", ".", "2", ".", "5">>,
           <<"1", ".", "3", ".", "0">>, <<"2", ".", "0", ".", "0">>,
           <<"1", ".", "2", ".", "3", "-", "r", "c", ".", "2">> }
    ELSE { <<"1", ".", "0">>, <<"1", ".", "5", ".", "0">>, <<"2">>, <<"0", ".", "9">> }

\* strings that parse_version rejects
BadVersionStrings == { <<"1", ".", "2", ".", "5">> }

Init ==
    /\ arg = <<>>
    /\ ret = <<>>
    /\ NoHeap

\* VersionSpecifier.from_version_spec_string(str)
NewFromSpecString ==
    /\ Len(instances) < MaxInstances
    /\ \E str \in HeapSpecStrings :
          /\ ret' = <<Call("from_version_spec_string", str,
                           from_version_spec_string(str))>>
          /\ instances' = construct(lists, cls, instances, ret'[1]).instances
          /\ lists' = construct(lists, cls, instances, ret'[1]).lists
    /\ UNCHANGED <<arg, cls>>

\* VersionSpecifier.from_scheme_version_spec_string(sv[1], sv[2])
NewFromSchemeString ==
    /\ Len(instances) < MaxInstances
    /\ \E sv \in HeapSchemeValues :
          /\ ret' = <<Call("from_scheme_version_spec_string", sv,
                           from_scheme_version_spec_string(sv[1], sv[2]))>>
          /\ instances' = construct(lists, cls, instances, ret'[1]).instances
          /\ lists' = construct(lists, cls, instances, ret'[1]).lists
    /\ UNCHANGED <<arg, cls>>

\* the call version in instances[self]
Query(self, version, isstr) ==
    Call("contains", [self |-> self, version |-> version, isstr |-> isstr],
         contains(lists[instances[self].ranges], version, isstr))

\* version in vs, the version being a version object
QueryObject ==
    /\ \E self \in 1..Len(instances) :
          \E v \in QueryVersions(instances[self].scheme) :
             ret' = <<Query(self, [scheme |-> instances[self].scheme, version |-> v],
                            FALSE)>>
    /\ UNCHANGED <<arg, instances, lists, cls>>

\* version in vs, the version being a string
QueryString ==
    /\ \E self \in 1..Len(instances) :
          \E str \in {instances[self].scheme \o <<":">> \o v :
                         v \in QueryVersions(instances[self].scheme)}
                     \cup BadVersionStrings :
             ret' = <<Query(self, str, TRUE)>>
    /\ UNCHANGED <<arg, instances, lists, cls>>

Next == NewFromSpecString \/ NewFromSchemeString \/ QueryObject \/ QueryString

Spec == Init /\ [][Next]_vars

(***************************************************************************)
(* C1: contains returns true exactly when the version satisfies every      *)
(* range of the specifier, whatever their order, and false as soon as one  *)
(* range rejects it.                                                       *)
(***************************************************************************)
C1_Queried == Len(ret) = 1 /\ ret[1].fn = "contains" /\ ret[1].out.ok

C1_Version ==
    IF ret[1].in.isstr THEN parse_version(ret[1].in.version).val ELSE ret[1].in.version

C1_Ranges == lists[instances[ret[1].in.self].ranges]

C1_ContainsIsAnd ==
    C1_Queried =>
        (ret[1].out.val = TRUE <=>
            \A j \in 1..Len(C1_Ranges) : version_in_range(C1_Version, C1_Ranges[j]))

\* a version the first range accepts and the second rejects
C1_Witness ==
    /\ C1_Queried
    /\ Len(C1_Ranges) = 2
    /\ version_in_range(C1_Version, C1_Ranges[1])
    /\ ~version_in_range(C1_Version, C1_Ranges[2])
    /\ ret[1].out.val = FALSE

(***************************************************************************)
(* C10: whatever calls follow, each object holds the scheme and the ranges *)
(* its own call built, in a list of its own, and the class attributes stay *)
(* the scheme "" and the empty list.                                       *)
(***************************************************************************)
C10_OwnState ==
    /\ cls = ClassDefaults
    /\ lists[cls.ranges] = <<>>
    /\ \A i \in 1..Len(instances) :
          /\ instances[i].scheme = instances[i].made.out.val.scheme
          /\ lists[instances[i].ranges] = instances[i].made.out.val.ranges
          /\ instances[i].ranges # cls.ranges
          /\ \A j \in 1..Len(instances) : i # j => instances[i].ranges # instances[j].ranges
          /\ instances[i].made.out =
                IF instances[i].made.fn = "from_version_spec_string"
                THEN from_version_spec_string(instances[i].made.in)
                ELSE from_scheme_version_spec_string(instances[i].made.in[1],
                                                     instances[i].made.in[2])

\* two objects of different ranges, the first older than a failed call or a query
C10_Witness ==
    /\ Len(instances) = 2
    /\ lists[instances[1].ranges] # lists[instances[2].ranges]
    /\ Len(ret) = 1
    /\ ret[1].fn = "contains"

====
